---- MODULE Spec2Model ----
(***************************************************************************)
(* The agent-tools registry core: the SQLite store (providers, tools,      *)
(* tools_fts, invocations) and the Registry operations that read and write *)
(* it.  Text is modelled as tuples of one-character strings so that        *)
(* concatenation, joining and splitting are computed, not assumed.         *)
(***************************************************************************)
EXTENDS Integers, Sequences, FiniteSets, TLC

VARIABLES
    providers,     \* providers table: id -> row
    tools,         \* tools table in rowid order
    tools_fts,     \* full-text index: rowid -> indexed text
    invocations,   \* invocations table in insertion order
    now,           \* time.Now().Unix()
    calls,         \* in-flight registry calls of the concurrent callers
    closed,        \* whether the registry's database handle has been closed
    resp           \* what the last finished call returned

vars == <<providers, tools, tools_fts, invocations, now, calls, closed, resp>>

store == <<providers, tools, tools_fts, invocations>>

----------------------------------------------------------------------------
(* Bounds of the model *)

MaxTime == 1
MaxInvocations == 1

(* Program constants *)

DefaultTimeoutMS == 30000
DefaultLimit == 20
MaxLimit == 100

----------------------------------------------------------------------------
(* Values *)

NULL == "NULL"
Nil == "nil"

P1 == <<"p">>
P2 == <<"q">>
ProviderIDs == {P1, P2}

FreePricing == [model |-> "free", amount_claw |-> ""]

ValidReq ==
    [name |-> <<"a">>, version |-> <<"b", "@", "c">>, description |-> <<"a", "b", " ", "c">>,
     schema |-> [input |-> "{}", output |-> "{}"],
     pricing |-> <<[model |-> "per_call", amount_claw |-> "5.0"]>>,
     endpoint |-> "grpc://e", timeout_ms |-> 10000,
     tags |-> << <<"a", "b">>, <<"c">> >>, provider_id |-> P1]

\* A request that leaves timeout, pricing, output schema and tags to the defaults.
BareReq ==
    [ValidReq EXCEPT !.description = <<"b">>, !.tags = << >>, !.timeout_ms = 0,
                     !.pricing = << >>, !.schema.output = ""]

\* The registration requests the callers send.
Requests ==
    { ValidReq,
      [BareReq EXCEPT !.name = <<"a", "@", "b">>, !.version = <<"c">>],
      [ValidReq EXCEPT !.provider_id = P2, !.timeout_ms = -5],
      [ValidReq EXCEPT !.name = << >>],
      [ValidReq EXCEPT !.schema.input = "{bad"] }

\* Requests that fail validation, from a provider that has no row, and the valid
\* ones beside them.
ValidationRequests ==
    LET r == [ValidReq EXCEPT !.provider_id = P2]
    IN  { ValidReq, BareReq,
          [r EXCEPT !.name = << >>],
          [r EXCEPT !.version = << >>],
          [r EXCEPT !.endpoint = ""],
          [r EXCEPT !.schema.input = ""],
          [r EXCEPT !.schema.input = "{bad"],
          [r EXCEPT !.schema.output = "{bad"] }

\* Tools whose words are longer than the terms that look for them.
TermRequests ==
    { [BareReq EXCEPT !.name = <<"a", "b">>, !.version = <<"c">>,
                      !.description = <<"b", "c">>],
      [BareReq EXCEPT !.name = <<"b">>, !.version = <<"c">>,
                      !.description = <<"a", " ", "b", "c">>] }

\* Queries of two terms.
TermQueries == {<<"a", " ", "b">>, <<"b", " ", "a">>, <<"a", "b", " ", "b">>}

\* The registrations behind the listing and search calls.
DiscoveryRequests ==
    { ValidReq,
      [BareReq EXCEPT !.name = <<"b">>, !.version = <<"c">>],
      [BareReq EXCEPT !.name = <<"c">>, !.version = <<"c">>, !.tags = << <<"a">> >>] }

Min(a, b) == IF a < b THEN a ELSE b
Max(a, b) == IF a < b THEN b ELSE a

----------------------------------------------------------------------------
(* Pure functions of the registry *)

\* strings.Join(elems, sep)
RECURSIVE Join(_, _)
Join(elems, sep) ==
    IF elems = << >> THEN << >>
    ELSE IF Len(elems) = 1 THEN elems[1]
    ELSE elems[1] \o sep \o Join(Tail(elems), sep)

\* strings.Split(s, sep) for a one-character separator
RECURSIVE SplitFrom(_, _, _)
SplitFrom(s, sep, cur) ==
    IF s = << >> THEN <<cur>>
    ELSE IF Head(s) = sep THEN <<cur>> \o SplitFrom(Tail(s), sep, << >>)
    ELSE SplitFrom(Tail(s), sep, Append(cur, Head(s)))

Split(s, sep) == SplitFrom(s, sep, << >>)

\* sha256 is taken to be collision free: the DID is the hashed text itself.
makeToolDID(name, version, providerID) ==
    <<"did:claw:tool:">> \o name \o <<"@">> \o version \o <<"#">> \o providerID

ValidJSON(raw) == raw \in {"{}", "null"}

\* ToolSchema.Validate without the check of the output schema.
SchemaValidateInputOnly(s) ==
    IF ~ValidJSON(s.input) THEN "invalid input schema" ELSE Nil

\* ToolSchema.Validate
SchemaValidate(s) ==
    IF ~ValidJSON(s.input) THEN "invalid input schema"
    ELSE IF s.output # "" /\ ~ValidJSON(s.output) THEN "invalid output schema"
    ELSE Nil

\* Validate without the defaults for timeout_ms and pricing.
ValidateNoDefaults(r) ==
    IF r.name = << >> THEN [err |-> "name is required", req |-> r]
    ELSE IF r.version = << >> THEN [err |-> "version is required", req |-> r]
    ELSE IF r.endpoint = "" THEN [err |-> "endpoint is required", req |-> r]
    ELSE [err |-> SchemaValidate(r.schema), req |-> r]

\* RegisterToolRequest.Validate: the error and the request as it leaves it
Validate(r) ==
    IF r.name = << >> THEN [err |-> "name is required", req |-> r]
    ELSE IF r.version = << >> THEN [err |-> "version is required", req |-> r]
    ELSE IF r.endpoint = "" THEN [err |-> "endpoint is required", req |-> r]
    ELSE LET r1 == IF r.timeout_ms <= 0 THEN [r EXCEPT !.timeout_ms = DefaultTimeoutMS] ELSE r
             r2 == IF r1.pricing = << >> THEN [r1 EXCEPT !.pricing = <<FreePricing>>] ELSE r1
         IN  [err |-> SchemaValidate(r2.schema), req |-> r2]

\* json.Marshal(req.Schema): an empty RawMessage is written as null
MarshalSchema(s) ==
    [input |-> s.input, output |-> IF s.output = "" THEN "null" ELSE s.output]

\* json.Marshal(req.Pricing): a pointer, << >> when nil (written as null); amount_claw
\* is omitempty
MarshalPricing(p) ==
    IF p = << >> THEN << >>
    ELSE IF p[1].amount_claw = "" THEN [model |-> p[1].model]
    ELSE [model |-> p[1].model, amount_claw |-> p[1].amount_claw]

\* json.Unmarshal into &Pricing{}
UnmarshalPricing(j) ==
    [model |-> IF "model" \in DOMAIN j THEN j.model ELSE "",
     amount_claw |-> IF "amount_claw" \in DOMAIN j THEN j.amount_claw ELSE ""]

assembleTool(row) ==
    [id |-> row.id, name |-> row.name, version |-> row.version,
     description |-> row.description,
     schema |-> [input |-> row.schema_json.input, output |-> row.schema_json.output],
     pricing |-> UnmarshalPricing(row.pricing),
     provider_id |-> row.provider_id, endpoint |-> row.endpoint,
     timeout_ms |-> row.timeout_ms,
     tags |-> IF row.tags # << >> THEN Split(row.tags, ",") ELSE << >>,
     created_at |-> row.created_at, updated_at |-> row.updated_at,
     is_active |-> (row.is_active = 1)]

----------------------------------------------------------------------------
(* Store statements *)

\* The placeholder upsert as INSERT OR REPLACE: an existing row is written anew.
UpsertPlaceholderReplace(provs, id, t) ==
    [q \in DOMAIN provs \cup {id} |->
        IF q = id
        THEN [id |-> id, name |-> "", endpoint |-> "", pubkey |-> "", stake_claw |-> "0",
              reputation |-> 0, created_at |-> t, last_seen |-> t]
        ELSE provs[q]]

\* INSERT INTO providers ... VALUES (?, '', '', '', '0', 0, ?, ?)
\* ON CONFLICT(id) DO UPDATE SET last_seen=excluded.last_seen
UpsertPlaceholder(provs, id, t) ==
    IF id \in DOMAIN provs THEN [provs EXCEPT ![id].last_seen = t]
    ELSE provs @@ (id :> [id |-> id, name |-> "", endpoint |-> "", pubkey |-> "",
                          stake_claw |-> "0", reputation |-> 0,
                          created_at |-> t, last_seen |-> t])

\* The row with an ID drawn from the time of the call as well as from the triple.
ToolRowTimedID(req, t) ==
    [id |-> makeToolDID(req.name, req.version, req.provider_id)
                \o <<IF t = 0 THEN "0" ELSE "n">>,
     name |-> req.name, version |-> req.version, description |-> req.description,
     schema_json |-> MarshalSchema(req.schema), pricing |-> MarshalPricing(req.pricing),
     provider_id |-> req.provider_id, endpoint |-> req.endpoint,
     timeout_ms |-> req.timeout_ms, tags |-> Join(req.tags, <<",">>),
     created_at |-> t, updated_at |-> t, is_active |-> 1]

\* The row RegisterTool inserts; is_active takes the column default 1.
ToolRow(req, t) ==
    [id |-> makeToolDID(req.name, req.version, req.provider_id),
     name |-> req.name, version |-> req.version, description |-> req.description,
     schema_json |-> MarshalSchema(req.schema), pricing |-> MarshalPricing(req.pricing),
     provider_id |-> req.provider_id, endpoint |-> req.endpoint,
     timeout_ms |-> req.timeout_ms, tags |-> Join(req.tags, <<",">>),
     created_at |-> t, updated_at |-> t, is_active |-> 1]

SameTriple(a, b) ==
    a.name = b.name /\ a.version = b.version /\ a.provider_id = b.provider_id

\* tools.id is the PRIMARY KEY.
PrimaryKeyConflict(ts, row) == \E i \in 1..Len(ts) : ts[i].id = row.id

\* tools_name_version_provider: UNIQUE (name, version, provider_id) WHERE is_active = 1
UniqueIndexConflict(ts, row) ==
    \E i \in 1..Len(ts) : ts[i].is_active = 1 /\ row.is_active = 1 /\ SameTriple(ts[i], row)

\* The rows of a (name, version, provider_id) triple, and the active ones
ToolRowsOf(ts, r) == {i \in 1..Len(ts) : SameTriple(ts[i], r)}

ActiveRowsOf(ts, r) == {i \in ToolRowsOf(ts, r) : ts[i].is_active = 1}

\* InsertToolError without the primary key and the unique index.
InsertToolErrorNoUnique(provs, ts, row) ==
    IF row.provider_id \notin DOMAIN provs THEN "FOREIGN KEY constraint failed" ELSE Nil

\* The error of INSERT INTO tools, Nil when the row goes in.
InsertToolError(provs, ts, row) ==
    IF PrimaryKeyConflict(ts, row) \/ UniqueIndexConflict(ts, row)
    THEN "UNIQUE constraint failed"
    ELSE IF row.provider_id \notin DOMAIN provs THEN "FOREIGN KEY constraint failed"
    ELSE Nil

\* FtsEntry with the tags column left out of the index.
FtsEntryNoTags(row) == [name |-> row.name, description |-> row.description, tags |-> << >>]

\* The columns of a tools row that tools_fts indexes
FtsEntry(row) == [name |-> row.name, description |-> row.description, tags |-> row.tags]

\* A store without the insert trigger.
FtsAfterInsertNone(fts, rowid, row) == fts

\* trigger tools_fts_insert
FtsAfterInsert(fts, rowid, row) == fts @@ (rowid :> FtsEntry(row))

\* trigger tools_fts_update: 'delete' of the old text, insert of the new
FtsAfterUpdate(fts, rowid, old, new) ==
    LET deleted == IF rowid \in DOMAIN fts /\ fts[rowid] = FtsEntry(old)
                   THEN DOMAIN fts \ {rowid} ELSE DOMAIN fts
    IN  [r \in deleted \cup {rowid} |-> IF r = rowid THEN FtsEntry(new) ELSE fts[r]]

\* scanTool over the active rows only.
scanToolActiveOnly(ts, id) ==
    IF \E i \in 1..Len(ts) : ts[i].id = id /\ ts[i].is_active = 1
    THEN [err |-> Nil, tool |-> assembleTool(ts[CHOOSE i \in 1..Len(ts) : ts[i].id = id])]
    ELSE [err |-> "ErrNotFound", tool |-> Nil]

\* SELECT ... FROM tools WHERE id = ?, scanned by scanTool
scanTool(ts, id) ==
    IF \E i \in 1..Len(ts) : ts[i].id = id
    THEN [err |-> Nil, tool |-> assembleTool(ts[CHOOSE i \in 1..Len(ts) : ts[i].id = id])]
    ELSE [err |-> "ErrNotFound", tool |-> Nil]

----------------------------------------------------------------------------
(* Listing and search *)

EffPage(page) == IF page <= 0 THEN 1 ELSE page

\* EffLimit without the cap.
EffLimitUncapped(limit) == IF limit <= 0 THEN DefaultLimit ELSE limit

EffLimit(limit) == IF limit <= 0 \/ limit > MaxLimit THEN DefaultLimit ELSE limit

\* ActiveRows without the WHERE clause.
ActiveRowsAll(ts) == 1..Len(ts)

\* WHERE is_active = 1
ActiveRows(ts) == {i \in 1..Len(ts) : ts[i].is_active = 1}

\* The rows in S in any order at all.
OrderByNothing(ts, S) ==
    LET n == Cardinality(S)
    IN  {o \in [1..n -> S] : \A i, j \in 1..n : i < j => o[i] # o[j]}

\* ORDER BY created_at DESC: every order of the rows in S that is descending in
\* created_at; the order of rows with equal created_at is left to the store.
OrderByCreatedDesc(ts, S) ==
    LET n == Cardinality(S)
    IN  {o \in [1..n -> S] :
            \A i, j \in 1..n :
                i < j => o[i] # o[j] /\ ts[o[i]].created_at >= ts[o[j]].created_at}

\* LIMIT ? OFFSET ?
LimitOffset(o, limit, offset) ==
    [k \in 1..Max(0, Min(limit, Len(o) - offset)) |-> o[offset + k]]

\* The tools a paged query over the rows in S can return (scanTools).
PageOf(ts, S, limit, offset) ==
    LET pages == {LimitOffset(o, limit, offset) : o \in OrderByCreatedDesc(ts, S)}
    IN  {[k \in DOMAIN pg |-> assembleTool(ts[pg[k]])] : pg \in pages}

Alnum == {"a", "b", "c"}

\* The unicode61 tokenizer of tools_fts: maximal runs of letters and digits.
RECURSIVE TokensFrom(_, _)
TokensFrom(s, cur) ==
    IF s = << >> THEN (IF cur = << >> THEN << >> ELSE <<cur>>)
    ELSE IF Head(s) \in Alnum THEN TokensFrom(Tail(s), Append(cur, Head(s)))
    ELSE (IF cur = << >> THEN << >> ELSE <<cur>>) \o TokensFrom(Tail(s), << >>)

Tokenize(s) == TokensFrom(s, << >>)

TokenSet(s) == LET ts == Tokenize(s) IN {ts[k] : k \in 1..Len(ts)}

IsPrefix(p, t) == Len(p) <= Len(t) /\ SubSeq(t, 1, Len(p)) = p

\* The terms of an FTS5 query string: barewords separated by spaces, a trailing
\* '*' making a term a prefix term.
QueryTerms(q) ==
    LET words == SelectSeq(Split(q, " "), LAMBDA w : w # << >>)
    IN  [k \in 1..Len(words) |->
            IF words[k][Len(words[k])] = "*"
            THEN [text |-> SubSeq(words[k], 1, Len(words[k]) - 1), prefix |-> TRUE]
            ELSE [text |-> words[k], prefix |-> FALSE]]

\* FTS5 rejects a bareword holding anything but letters and digits.
QuerySyntaxOK(q) ==
    LET terms == QueryTerms(q)
    IN  /\ Len(terms) > 0
        /\ \A k \in 1..Len(terms) :
              /\ terms[k].text # << >>
              /\ \A c \in 1..Len(terms[k].text) : terms[k].text[c] \in Alnum

TermMatches(term, entry) ==
    \E t \in TokenSet(entry.name) \cup TokenSet(entry.description) \cup TokenSet(entry.tags) :
        IF term.prefix THEN IsPrefix(term.text, t) ELSE t = term.text

\* SELECT rowid FROM tools_fts WHERE tools_fts MATCH ?
FtsMatch(fts, q) ==
    LET terms == QueryTerms(q)
    IN  {r \in DOMAIN fts : \A k \in 1..Len(terms) : TermMatches(terms[k], fts[r])}

\* What a call returns: its error (Nil for none) and its result.  wrote records
\* whether the call changed the store.
Resp(op, arg, err) ==
    [op |-> op, arg |-> arg, err |-> err, tools |-> << >>,
     total |-> 0, page |-> 0, limit |-> 0, id |-> << >>, wrote |-> FALSE]

\* Registry.GetTool
GetToolResult(ts, id) ==
    LET r == scanTool(ts, id)
    IN  IF r.err = Nil THEN [Resp("GetTool", id, Nil) EXCEPT !.tools = <<r.tool>>]
        ELSE Resp("GetTool", id, r.err)

\* Registry.ListTools: every result the call can return on the tools table ts
ListToolsResults(ts, page, limit) ==
    {[Resp("ListTools", [page |-> page, limit |-> limit], Nil) EXCEPT
        !.tools = pg, !.total = Cardinality(ActiveRows(ts)),
        !.page = EffPage(page), !.limit = EffLimit(limit)] :
     pg \in PageOf(ts, ActiveRows(ts), EffLimit(limit), (EffPage(page) - 1) * EffLimit(limit))}

\* SearchTools with a count of all the matches as its total.
SearchToolsResultsFullCount(ts, fts, q) ==
    LET page == EffPage(q.page)
        limit == EffLimit(q.limit)
        match == q.query \o <<"*">>
        rows == IF q.query # << >> THEN ActiveRows(ts) \cap FtsMatch(fts, match)
                ELSE ActiveRows(ts)
    IN  IF q.query # << >> /\ ~QuerySyntaxOK(match)
        THEN {Resp("SearchTools", q, "search tools")}
        ELSE {[Resp("SearchTools", q, Nil) EXCEPT
                 !.tools = pg, !.total = Cardinality(rows), !.page = page, !.limit = limit] :
              pg \in PageOf(ts, rows, limit, (page - 1) * limit)}

\* Registry.SearchTools: every result the call can return
SearchToolsResults(ts, fts, q) ==
    LET page == EffPage(q.page)
        limit == EffLimit(q.limit)
        offset == (page - 1) * limit
        match == q.query \o <<"*">>
    IN  IF q.query # << >> /\ ~QuerySyntaxOK(match)
        THEN {Resp("SearchTools", q, "search tools")}
        ELSE {[Resp("SearchTools", q, Nil) EXCEPT
                 !.tools = pg, !.total = Len(pg), !.page = page, !.limit = limit] :
              pg \in PageOf(ts,
                            IF q.query # << >>
                            THEN ActiveRows(ts) \cap FtsMatch(fts, match)
                            ELSE ActiveRows(ts),
                            limit, offset)}

----------------------------------------------------------------------------
(* Registry operations, each the whole call *)

\* Handler.registerTool: the status and error code of POST /v1/tools
registerToolReply(r) ==
    IF r.err = Nil THEN [status |-> 201, code |-> ""]
    ELSE IF r.err = "ErrDuplicate" THEN [status |-> 409, code |-> "DUPLICATE_TOOL"]
    ELSE [status |-> 500, code |-> "INTERNAL_ERROR"]

Anonymous == <<"did:claw:agent:anonymous">>

\* The Authorization header taken as the identity, absent or not.
providerIDFromRequestRaw(auth) == auth

\* providerIDFromRequest: the Authorization header, << >> when absent; "Bearer " is
\* one element of the text
providerIDFromRequest(auth) ==
    IF auth = << >> THEN Anonymous
    ELSE IF Len(auth) > 1 /\ auth[1] = "Bearer " THEN Tail(auth)
    ELSE auth

\* The Authorization headers the clients send.
AuthHeaders == {<< >>, <<"p">>, <<"Bearer ", "p">>, <<"Bearer ">>, Anonymous}

\* Handler.deactivateTool: the status and error code of DELETE /v1/tools/{id}
deactivateToolReply(r) ==
    IF r.err = Nil THEN [status |-> 204, code |-> ""]
    ELSE IF r.err = "ErrNotFound" THEN [status |-> 404, code |-> "TOOL_NOT_FOUND"]
    ELSE [status |-> 500, code |-> "INTERNAL_ERROR"]

\* Handler.getTool: the status and error code of GET /v1/tools/{id}
getToolReply(r) ==
    IF r.err = Nil THEN [status |-> 200, code |-> ""]
    ELSE IF r.err = "ErrNotFound" THEN [status |-> 404, code |-> "TOOL_NOT_FOUND"]
    ELSE [status |-> 500, code |-> "INTERNAL_ERROR"]

\* Handler.getProvider: the status and error code of GET /v1/providers/{id}
getProviderReply(r) ==
    IF r.err = Nil THEN [status |-> 200, code |-> ""]
    ELSE IF r.err = "ErrNotFound" THEN [status |-> 404, code |-> "PROVIDER_NOT_FOUND"]
    ELSE [status |-> 500, code |-> "INTERNAL_ERROR"]

\* Handler.registerProvider: the status and error code of POST /v1/providers
registerProviderReply(r) ==
    IF r.err = Nil THEN [status |-> 201, code |-> ""]
    ELSE [status |-> 400, code |-> "INVALID_REQUEST"]

\* The statement of RegisterTool at which the caller's context is canceled or
\* the store fails: none of them, the provider upsert, the tool insert, the
\* closing GetTool.
Faults == {"none", "upsert", "insert", "get"}

UnknownToolID == <<"did:claw:tool:", "x">>

ToolIDs ==
    {makeToolDID(r.name, r.version, r.provider_id) : r \in Requests} \cup {UnknownToolID}

DiscoveryIDs ==
    {makeToolDID(r.name, r.version, r.provider_id) : r \in DiscoveryRequests}
        \cup {UnknownToolID}

PageArgs == 0..2

LimitArgs == {0, 1, MaxLimit + 1}

\* The page and limit of the listing and search calls: the defaults, and a second
\* page of one tool
PagingArgs == {<<0, 0>>, <<2, 1>>}

\* Pages and limits in and out of range
RangeArgs == {-1, 0, 2} \X {-1, 0, 1, MaxLimit, MaxLimit + 1}

Queries == {<< >>, <<"a">>, <<"c", "-">>}

SearchQuery(query, page, limit) ==
    [query |-> query, tag |-> << >>, provider |-> << >>, max_price |-> 0,
     page |-> page, limit |-> limit]

\* A call that leaves the store as it is can be followed by exactly the calls
\* that could have been made in its place, so the calls that follow are explored
\* from the state before it only.
Ready == resp.wrote

\* A handle that Close leaves usable.
DBErrorNever == Nil

\* database/sql: every statement on a closed handle fails
DBError == IF closed THEN "sql: database is closed" ELSE Nil

Returned(r, before, after) == [r EXCEPT !.wrote = (before # after)]

\* Registry.RegisterTool on the store (provs, ts, fts) at time t: the store it
\* leaves and what it returns.
RegisterToolRun(provs, ts, fts, t, req, fault) ==
    LET v == Validate(req)
        r == v.req
        row == ToolRow(r, t)
        provs1 == UpsertPlaceholder(provs, r.provider_id, t)
        e == InsertToolError(provs1, ts, row)
        ts1 == Append(ts, row)
        fts1 == FtsAfterInsert(fts, Len(ts1), row)
        out(ps, tt, ff, rr) == [providers |-> ps, tools |-> tt, tools_fts |-> ff, resp |-> rr]
    IN  IF v.err # Nil THEN out(provs, ts, fts, Resp("RegisterTool", req, "validate"))
        ELSE IF fault = "upsert"
        THEN out(provs, ts, fts, Resp("RegisterTool", req, "upsert provider"))
        ELSE IF fault = "insert"
        THEN out(provs1, ts, fts, Resp("RegisterTool", req, "insert tool"))
        ELSE IF e = "UNIQUE constraint failed"
        THEN out(provs1, ts, fts, Resp("RegisterTool", req, "ErrDuplicate"))
        ELSE IF e # Nil
        THEN out(provs1, ts, fts, Resp("RegisterTool", req, "insert tool"))
        ELSE IF fault = "get"
        THEN out(provs1, ts1, fts1, Resp("RegisterTool", req, "store"))
        ELSE out(provs1, ts1, fts1,
                 [GetToolResult(ts1, row.id) EXCEPT !.op = "RegisterTool", !.arg = req])

RegisterTool(req, fault) ==
    LET o == RegisterToolRun(providers, tools, tools_fts, now, req,
                             IF DBError # Nil THEN "upsert" ELSE fault)
    IN  /\ Ready
        /\ providers' = o.providers
        /\ tools' = o.tools
        /\ tools_fts' = o.tools_fts
        /\ resp' = Returned(o.resp, <<providers, tools>>, <<o.providers, o.tools>>)
        /\ UNCHANGED <<invocations, now, calls, closed>>

\* DeactivateMatches without the owner condition.
DeactivateMatchesAnyOwner(ts, id, providerID) == {i \in 1..Len(ts) : ts[i].id = id}

\* DeactivateMatches with the active rows alone.
DeactivateMatchesActive(ts, id, providerID) ==
    {i \in 1..Len(ts) : ts[i].id = id /\ ts[i].provider_id = providerID /\ ts[i].is_active = 1}

\* UPDATE tools SET is_active = 0, updated_at = ? WHERE id = ? AND provider_id = ?
DeactivateMatches(ts, id, providerID) ==
    {i \in 1..Len(ts) : ts[i].id = id /\ ts[i].provider_id = providerID}

\* The UPDATE setting created_at as well.
DeactivateRowsRecreated(ts, S, t) ==
    [i \in 1..Len(ts) |->
        IF i \in S THEN [ts[i] EXCEPT !.is_active = 0, !.updated_at = t, !.created_at = t]
        ELSE ts[i]]

DeactivateRows(ts, S, t) ==
    [i \in 1..Len(ts) |->
        IF i \in S THEN [ts[i] EXCEPT !.is_active = 0, !.updated_at = t] ELSE ts[i]]

RECURSIVE FtsAfterUpdates(_, _, _, _)
FtsAfterUpdates(fts, old, new, S) ==
    IF S = {} THEN fts
    ELSE LET i == CHOOSE x \in S : TRUE
         IN  FtsAfterUpdates(FtsAfterUpdate(fts, i, old[i], new[i]), old, new, S \ {i})

\* Registry.DeactivateTool
DeactivateTool(id, providerID) ==
    LET S == DeactivateMatches(tools, id, providerID)
        arg == [id |-> id, provider_id |-> providerID]
        ts1 == DeactivateRows(tools, S, now)
    IN  /\ Ready
        /\ IF DBError # Nil
           THEN /\ resp' = Resp("DeactivateTool", arg, DBError)
                /\ UNCHANGED <<tools, tools_fts>>
           ELSE /\ tools' = ts1
                /\ tools_fts' = FtsAfterUpdates(tools_fts, tools, ts1, S)
                /\ resp' = Returned(Resp("DeactivateTool", arg,
                                         IF S = {} THEN "ErrNotFound" ELSE Nil),
                                    tools, ts1)
        /\ UNCHANGED <<providers, invocations, now, calls, closed>>

\* Registry.GetTool
GetTool(id) ==
    /\ Ready
    /\ resp' = IF DBError # Nil THEN Resp("GetTool", id, DBError)
               ELSE GetToolResult(tools, id)
    /\ UNCHANGED <<store, now, calls, closed>>

\* Registry.ListTools
ListTools(page, limit) ==
    /\ Ready
    /\ resp' \in IF DBError # Nil
                 THEN {Resp("ListTools", [page |-> page, limit |-> limit], DBError)}
                 ELSE ListToolsResults(tools, page, limit)
    /\ UNCHANGED <<store, now, calls, closed>>

\* Registry.SearchTools
SearchTools(q) ==
    /\ Ready
    /\ resp' \in IF DBError # Nil THEN {Resp("SearchTools", q, DBError)}
                 ELSE SearchToolsResults(tools, tools_fts, q)
    /\ UNCHANGED <<store, now, calls, closed>>

\* The upsert as INSERT OR REPLACE: the row is written anew.
UpsertProviderReplace(provs, p, t) ==
    [id \in DOMAIN provs \cup {p.id} |->
        IF id = p.id
        THEN [id |-> p.id, name |-> p.name, endpoint |-> p.endpoint, pubkey |-> p.pubkey,
              stake_claw |-> p.stake_claw, reputation |-> 0, created_at |-> t, last_seen |-> t]
        ELSE provs[id]]

\* INSERT INTO providers ... ON CONFLICT(id) DO UPDATE SET name, endpoint, pubkey,
\* stake_claw, last_seen
UpsertProvider(provs, p, t) ==
    IF p.id \in DOMAIN provs
    THEN [provs EXCEPT ![p.id] = [@ EXCEPT !.name = p.name, !.endpoint = p.endpoint,
                                           !.pubkey = p.pubkey, !.stake_claw = p.stake_claw,
                                           !.last_seen = t]]
    ELSE provs @@ (p.id :> [id |-> p.id, name |-> p.name, endpoint |-> p.endpoint,
                            pubkey |-> p.pubkey, stake_claw |-> p.stake_claw,
                            reputation |-> 0, created_at |-> t, last_seen |-> t])

\* SELECT ... FROM providers WHERE id = ?, scanned by scanProvider
scanProvider(provs, id) ==
    IF id \in DOMAIN provs THEN [err |-> Nil, provider |-> provs[id]]
    ELSE [err |-> "ErrNotFound", provider |-> Nil]

GetProviderResult(provs, id) ==
    LET r == scanProvider(provs, id)
    IN  IF r.err = Nil THEN [Resp("GetProvider", id, Nil) EXCEPT !.tools = <<r.provider>>]
        ELSE Resp("GetProvider", id, r.err)

ProviderReq == [id |-> P1, name |-> "n", endpoint |-> "grpc://p", pubkey |-> "k", stake_claw |-> ""]

ProviderRequests ==
    { ProviderReq,
      [ProviderReq EXCEPT !.name = "m", !.stake_claw = "7"],
      [ProviderReq EXCEPT !.pubkey = ""],
      [ProviderReq EXCEPT !.endpoint = ""],
      [ProviderReq EXCEPT !.id = << >>] }

\* The statement of RegisterProvider at which the caller's context is canceled or
\* the store fails: none of them, the upsert, the closing GetProvider.
ProviderFaults == {"none", "upsert", "get"}

\* Registry.RegisterProvider
RegisterProvider(p, fault) ==
    LET err == IF p.id = << >> THEN "provider id is required"
               ELSE IF p.endpoint = "" THEN "endpoint is required"
               ELSE IF p.pubkey = "" THEN "pubkey is required"
               ELSE IF fault = "upsert" \/ DBError # Nil THEN "upsert provider"
               ELSE Nil
        p1 == IF p.stake_claw = "" THEN [p EXCEPT !.stake_claw = "0"] ELSE p
        provs1 == UpsertProvider(providers, p1, now)
    IN  /\ Ready
        /\ providers' = IF err = Nil THEN provs1 ELSE providers
        /\ resp' = IF err # Nil THEN Resp("RegisterProvider", p, err)
                   ELSE IF fault = "get"
                   THEN Returned(Resp("RegisterProvider", p, "store"), providers, provs1)
                   ELSE Returned([GetProviderResult(provs1, p.id) EXCEPT
                                     !.op = "RegisterProvider", !.arg = p],
                                 providers, provs1)
        /\ UNCHANGED <<tools, tools_fts, invocations, now, calls, closed>>

\* Registry.GetProvider
GetProvider(id) ==
    /\ Ready
    /\ resp' = IF DBError # Nil THEN Resp("GetProvider", id, DBError)
               ELSE GetProviderResult(providers, id)
    /\ UNCHANGED <<store, now, calls, closed>>

\* ORDER BY reputation DESC, created_at DESC over the providers
OrderProviders(provs) ==
    {o \in [1..Cardinality(DOMAIN provs) -> DOMAIN provs] :
        \A i, j \in 1..Cardinality(DOMAIN provs) :
            i < j => /\ o[i] # o[j]
                     /\ \/ provs[o[i]].reputation > provs[o[j]].reputation
                        \/ /\ provs[o[i]].reputation = provs[o[j]].reputation
                           /\ provs[o[i]].created_at >= provs[o[j]].created_at}

\* Registry.ListProviders
ListProviders ==
    /\ Ready
    /\ IF DBError # Nil
       THEN resp' = Resp("ListProviders", Nil, DBError)
       ELSE \E o \in OrderProviders(providers) :
               resp' = [Resp("ListProviders", Nil, Nil) EXCEPT
                           !.tools = [k \in DOMAIN o |-> providers[o[k]]]]
    /\ UNCHANGED <<store, now, calls, closed>>

----------------------------------------------------------------------------
(* Invocation tracker *)

\* json.Marshal of the input map fails on a value JSON cannot carry.
Inputs == {"{k:v}", "chan"}

\* hashInput; sha256 is taken to be collision free.
hashInput(input) ==
    IF input = "chan" THEN [err |-> "json: unsupported type", hash |-> << >>]
    ELSE [err |-> Nil, hash |-> <<"sha256:", input>>]

\* "inv_" + uuid.NewString(): the k-th fresh identifier
InvocationID(k) == <<"inv_", k>>

InvocationIDs == {InvocationID(k) : k \in 1..(MaxInvocations + 1)}

\* The reference with foreign keys off.
ToolReferenceUnchecked(ts, toolID) == TRUE

\* A reference that only an active tool satisfies.
ToolReferenceActive(ts, toolID) ==
    \E i \in 1..Len(ts) : ts[i].id = toolID /\ ts[i].is_active = 1

\* invocations.tool_id REFERENCES tools(id), with _foreign_keys=on
ToolReference(ts, toolID) == \E i \in 1..Len(ts) : ts[i].id = toolID

\* Registry.RecordInvocation
RecordInvocation(toolID, consumerID, input) ==
    LET h == hashInput(input)
        id == InvocationID(Len(invocations) + 1)
        fk == ToolReference(tools, toolID)
        row == [id |-> id, tool_id |-> toolID, consumer_id |-> consumerID,
                input_hash |-> h.hash, output_hash |-> NULL, receipt_sig |-> NULL,
                status |-> "pending", cost_claw |-> NULL, escrow_id |-> NULL,
                started_at |-> now, completed_at |-> << >>, error |-> NULL]
        arg == [tool_id |-> toolID, consumer_id |-> consumerID, input |-> input]
    IN  /\ Ready
        /\ Len(invocations) < MaxInvocations
        /\ IF h.err # Nil
           THEN /\ resp' = Resp("RecordInvocation", arg, "hash input")
                /\ UNCHANGED invocations
           ELSE IF DBError # Nil \/ ~fk
           THEN /\ resp' = Resp("RecordInvocation", arg, "record invocation")
                /\ UNCHANGED invocations
           ELSE /\ invocations' = Append(invocations, row)
                /\ resp' = [Resp("RecordInvocation", arg, Nil) EXCEPT !.id = id, !.wrote = TRUE]
        /\ UNCHANGED <<providers, tools, tools_fts, now, calls, closed>>

\* The UPDATE without its WHERE clause: every row.
WhereAny(invs, id) == 1..Len(invs)

\* UPDATE invocations SET ... WHERE id = ?
WhereID(invs, id) == {i \in 1..Len(invs) : invs[i].id = id}

\* The columns CompleteInvocation sets
CompleteSet(row, outputHash, receiptSig, costCLAW, t) ==
    [row EXCEPT !.status = "completed", !.output_hash = outputHash,
                !.receipt_sig = receiptSig, !.cost_claw = costCLAW, !.completed_at = <<t>>]

\* A failure that puts the invocation back in the queue.
FailSetRetry(row, reason, t) ==
    [row EXCEPT !.status = "pending", !.error = reason, !.completed_at = <<t>>]

\* The columns FailInvocation sets
FailSet(row, reason, t) ==
    [row EXCEPT !.status = "failed", !.error = reason, !.completed_at = <<t>>]

\* Registry.CompleteInvocation
CompleteInvocation(id, outputHash, receiptSig, costCLAW) ==
    LET invs1 == [i \in 1..Len(invocations) |->
                    IF i \in WhereID(invocations, id)
                    THEN CompleteSet(invocations[i], outputHash, receiptSig, costCLAW, now)
                    ELSE invocations[i]]
        arg == [id |-> id, output_hash |-> outputHash]
    IN  /\ Ready
        /\ IF DBError # Nil
           THEN /\ resp' = Resp("CompleteInvocation", arg, DBError)
                /\ UNCHANGED invocations
           ELSE /\ invocations' = invs1
                /\ resp' = Returned(Resp("CompleteInvocation", arg, Nil), invocations, invs1)
        /\ UNCHANGED <<providers, tools, tools_fts, now, calls, closed>>

\* Registry.FailInvocation
FailInvocation(id, reason) ==
    LET invs1 == [i \in 1..Len(invocations) |->
                    IF i \in WhereID(invocations, id)
                    THEN FailSet(invocations[i], reason, now)
                    ELSE invocations[i]]
        arg == [id |-> id, reason |-> reason]
    IN  /\ Ready
        /\ IF DBError # Nil
           THEN /\ resp' = Resp("FailInvocation", arg, DBError)
                /\ UNCHANGED invocations
           ELSE /\ invocations' = invs1
                /\ resp' = Returned(Resp("FailInvocation", arg, Nil), invocations, invs1)
        /\ UNCHANGED <<providers, tools, tools_fts, now, calls, closed>>

----------------------------------------------------------------------------
(* Transport: the identity of the caller *)

\* Handler.registerTool: POST /v1/tools with the Authorization header auth
PostTool(auth, req) ==
    RegisterTool([req EXCEPT !.provider_id = providerIDFromRequest(auth)], "none")

\* Handler.deactivateTool: DELETE /v1/tools/{id} with the Authorization header auth
DeleteTool(auth, id) == DeactivateTool(id, providerIDFromRequest(auth))

----------------------------------------------------------------------------
(* The store's handle *)

\* A schema statement that writes the table anew.
CreateTableAnew(table, exists, empty) == empty

\* CREATE TABLE / VIRTUAL TABLE IF NOT EXISTS: an existing table is left alone
CreateTableIfNotExists(table, exists, empty) == IF exists THEN table ELSE empty

\* DB.migrate on a location whose tables exist: the tables it leaves
migrate(provs, ts, fts, invs) ==
    [providers |-> CreateTableIfNotExists(provs, TRUE, << >>),
     tools |-> CreateTableIfNotExists(ts, TRUE, << >>),
     tools_fts |-> CreateTableIfNotExists(fts, TRUE, << >>),
     invocations |-> CreateTableIfNotExists(invs, TRUE, << >>)]

\* store.Open on the location of the store: a new handle, the schema applied again
Open ==
    LET m == migrate(providers, tools, tools_fts, invocations)
    IN  /\ Ready
        /\ providers' = m.providers
        /\ tools' = m.tools
        /\ tools_fts' = m.tools_fts
        /\ invocations' = m.invocations
        /\ closed' = FALSE
        /\ resp' = [Resp("Open", Nil, Nil) EXCEPT !.wrote = TRUE]
        /\ UNCHANGED <<now, calls>>

\* DB.Close
Close ==
    /\ Ready
    /\ ~closed
    /\ closed' = TRUE
    /\ resp' = [Resp("Close", Nil, Nil) EXCEPT !.wrote = TRUE]
    /\ UNCHANGED <<store, now, calls>>

----------------------------------------------------------------------------

\* A second passes.
Tick ==
    /\ Ready
    /\ now < MaxTime
    /\ now' = now + 1
    /\ resp' = [Resp("none", Nil, Nil) EXCEPT !.wrote = TRUE]
    /\ UNCHANGED <<store, calls, closed>>

Callers == {"c1", "c2"}

Idle == [pc |-> "idle"]

Init ==
    /\ providers = << >>
    /\ tools = << >>
    /\ tools_fts = << >>
    /\ invocations = << >>
    /\ now = 0
    /\ calls = [c \in Callers |-> Idle]
    /\ closed = FALSE
    /\ resp = [Resp("none", Nil, Nil) EXCEPT !.wrote = TRUE]

\* The registry's writes, with the failures a registration can meet.
Next ==
    \/ \E req \in Requests, fault \in Faults : RegisterTool(req, fault)
    \/ \E id \in ToolIDs, p \in ProviderIDs : DeactivateTool(id, p)
    \/ Tick

Spec == Init /\ [][Next]_vars

\* Registrations that pass and fail validation.
NextValidation ==
    \/ \E req \in ValidationRequests, fault \in Faults : RegisterTool(req, fault)
    \/ \E req \in ValidationRequests :
          DeactivateTool(makeToolDID(req.name, req.version, req.provider_id), req.provider_id)
    \/ Tick

SpecValidation == Init /\ [][NextValidation]_vars

\* The tool registrations beside the provider registrations.
ProviderToolRequests ==
    {ValidReq, [ValidReq EXCEPT !.provider_id = P2], [ValidReq EXCEPT !.name = << >>]}

\* Listing and search with pages and limits in and out of range.
NextPaging ==
    \/ \E req \in DiscoveryRequests : RegisterTool(req, "none")
    \/ \E pl \in RangeArgs : ListTools(pl[1], pl[2])
    \/ \E q \in {<< >>, <<"a">>}, pl \in RangeArgs : SearchTools(SearchQuery(q, pl[1], pl[2]))
    \/ Tick

SpecPaging == Init /\ [][NextPaging]_vars

\* Search with queries of several terms.
NextTerms ==
    \/ \E req \in TermRequests : RegisterTool(req, "none")
    \/ \E req \in TermRequests :
          DeactivateTool(makeToolDID(req.name, req.version, req.provider_id), req.provider_id)
    \/ \E q \in TermQueries, pl \in PagingArgs : SearchTools(SearchQuery(q, pl[1], pl[2]))
    \/ Tick

SpecTerms == Init /\ [][NextTerms]_vars

\* Deactivation among several tools and their invocations.
NextFrame ==
    \/ \E req \in {ValidReq, [ValidReq EXCEPT !.provider_id = P2]} : RegisterTool(req, "none")
    \/ \E p \in ProviderIDs :
          DeactivateTool(makeToolDID(ValidReq.name, ValidReq.version, p), p)
    \/ RecordInvocation(makeToolDID(ValidReq.name, ValidReq.version, P1), "consumer", "{k:v}")
    \/ Tick

SpecFrame == Init /\ [][NextFrame]_vars

\* Searches with a tag, a provider or a highest price set.
FilterQueries ==
    { [SearchQuery(<< >>, 1, 0) EXCEPT !.tag = <<"c">>],
      [SearchQuery(<< >>, 1, 0) EXCEPT !.provider = P2],
      [SearchQuery(<< >>, 1, 0) EXCEPT !.max_price = 1],
      [SearchQuery(<<"b">>, 1, 0) EXCEPT !.tag = <<"c">>, !.provider = P2, !.max_price = 1] }

\* A priced and tagged tool of one provider, a free and untagged tool of another.
FilterRequests == {ValidReq, [BareReq EXCEPT !.name = <<"b">>, !.provider_id = P2]}

\* Search with filters.
NextFilters ==
    \/ \E req \in FilterRequests : RegisterTool(req, "none")
    \/ \E req \in FilterRequests :
          DeactivateTool(makeToolDID(req.name, req.version, req.provider_id), req.provider_id)
    \/ \E q \in FilterQueries : SearchTools(q)
    \/ Tick

SpecFilters == Init /\ [][NextFilters]_vars

\* Tools registered with free-text tags: plain tags, a tag that holds a comma, and
\* a single empty tag.
TagRequests ==
    { ValidReq,
      [ValidReq EXCEPT !.name = <<"b">>, !.tags = << <<"a", ",", "b">> >>],
      [ValidReq EXCEPT !.name = <<"c">>, !.tags = << << >> >>] }

TagToolIDs == {makeToolDID(req.name, req.version, req.provider_id) : req \in TagRequests}

\* Registration and retrieval of tagged tools.
NextTags ==
    \/ \E req \in TagRequests : RegisterTool(req, "none")
    \/ \E id \in TagToolIDs : GetTool(id)
    \/ \E id \in TagToolIDs : DeactivateTool(id, P1)
    \/ Tick

SpecTags == Init /\ [][NextTags]_vars

\* The PricingModel constants.
PricingModels == {"free", "per_call", "per_token", "subscription"}

\* Requests priced per call, left to the default, and priced with a model that is
\* none of the constants.
PricingRequests ==
    { ValidReq,
      [BareReq EXCEPT !.name = <<"b">>],
      [ValidReq EXCEPT !.name = <<"c">>,
                       !.pricing = <<[model |-> "auction", amount_claw |-> "5.0"]>>] }

\* Registration of priced tools.
NextPricing ==
    \/ \E req \in PricingRequests : RegisterTool(req, "none")
    \/ \E req \in PricingRequests :
          GetTool(makeToolDID(req.name, req.version, req.provider_id))
    \/ \E req \in PricingRequests :
          DeactivateTool(makeToolDID(req.name, req.version, req.provider_id), P1)
    \/ Tick

SpecPricing == Init /\ [][NextPricing]_vars

\* The tools the callers name in DELETE /v1/tools/{id}.
IdentityToolIDs ==
    {makeToolDID(ValidReq.name, ValidReq.version, providerIDFromRequest(h)) :
        h \in {<< >>, <<"p">>}}

\* Registrations and deactivations over HTTP, with and without a credential.
NextIdentity ==
    \/ \E h \in AuthHeaders : PostTool(h, ValidReq)
    \/ \E h \in AuthHeaders, id \in IdentityToolIDs : DeleteTool(h, id)
    \/ Tick

SpecIdentity == Init /\ [][NextIdentity]_vars

\* Every operation of the registry on a store that is closed and opened again.
NextStore ==
    \/ RegisterTool(ValidReq, "none")
    \/ DeactivateTool(makeToolDID(ValidReq.name, ValidReq.version, ValidReq.provider_id), P1)
    \/ \E id \in {makeToolDID(ValidReq.name, ValidReq.version, ValidReq.provider_id),
                  UnknownToolID} : GetTool(id)
    \/ ListTools(1, 0)
    \/ \E q \in {<< >>, <<"a">>} : SearchTools(SearchQuery(q, 1, 0))
    \/ RegisterProvider(ProviderReq, "none")
    \/ \E id \in ProviderIDs : GetProvider(id)
    \/ ListProviders
    \/ RecordInvocation(makeToolDID(ValidReq.name, ValidReq.version, ValidReq.provider_id),
                        "consumer", "{k:v}")
    \/ CompleteInvocation(InvocationID(1), "sha256:out", "sig", "1.0")
    \/ FailInvocation(InvocationID(1), "timeout")
    \/ Open
    \/ Close
    \/ Tick

SpecStore == Init /\ [][NextStore]_vars

\* Provider registration, with the tool registrations that upsert a provider
NextProviders ==
    \/ \E req \in ProviderToolRequests, fault \in Faults : RegisterTool(req, fault)
    \/ \E p \in ProviderRequests, fault \in ProviderFaults : RegisterProvider(p, fault)
    \/ \E id \in ProviderIDs : GetProvider(id)
    \/ ListProviders
    \/ Tick

SpecProviders == Init /\ [][NextProviders]_vars

\* Listing, lookup and search over the tools registered and deactivated.
NextDiscovery ==
    \/ \E req \in DiscoveryRequests : RegisterTool(req, "none")
    \/ \E req \in DiscoveryRequests :
          DeactivateTool(makeToolDID(req.name, req.version, req.provider_id), req.provider_id)
    \/ \E id \in DiscoveryIDs : GetTool(id)
    \/ \E pl \in PagingArgs : ListTools(pl[1], pl[2])
    \/ \E pl \in PagingArgs : SearchTools(SearchQuery(<< >>, pl[1], pl[2]))
    \/ Tick

SpecDiscovery == Init /\ [][NextDiscovery]_vars

\* Tool registration and full-text search
NextSearch ==
    \/ \E req \in DiscoveryRequests : RegisterTool(req, "none")
    \/ \E req \in DiscoveryRequests :
          DeactivateTool(makeToolDID(req.name, req.version, req.provider_id), req.provider_id)
    \/ \E query \in Queries, pl \in PagingArgs :
          SearchTools(SearchQuery(query, pl[1], pl[2]))
    \/ Tick

SpecSearch == Init /\ [][NextSearch]_vars

\* The invocation tracker over one tool.
NextInvocations ==
    \/ RegisterTool(ValidReq, "none")
    \/ DeactivateTool(makeToolDID(ValidReq.name, ValidReq.version, ValidReq.provider_id), P1)
    \/ \E id \in {makeToolDID(ValidReq.name, ValidReq.version, ValidReq.provider_id),
                  UnknownToolID}, input \in Inputs :
          RecordInvocation(id, "consumer", input)
    \/ \E id \in InvocationIDs : CompleteInvocation(id, "sha256:out", "sig", "1.0")
    \/ \E id \in InvocationIDs : FailInvocation(id, "timeout")
    \/ Tick

SpecInvocations == Init /\ [][NextInvocations]_vars

----------------------------------------------------------------------------
(* Concurrent callers. net/http serves each request on its own goroutine and
   database/sql runs each ExecContext / QueryContext as a statement of its own,
   so the statements of two RegisterTool calls interleave. calls[c] is the
   position of caller c inside RegisterTool; fresh records that the triple had
   no active tool when the call began, during the callers whose calls were
   running then. *)

RaceRequests ==
    {ValidReq,
     [BareReq EXCEPT !.name = <<"a", "@", "b">>, !.version = <<"c">>],
     [ValidReq EXCEPT !.name = << >>]}

\* The callers inside a call
Running == {d \in Callers : calls[d].pc \in {"upsert", "insert", "get"}}

\* RegisterTool up to the provider upsert: Validate, makeToolDID, time.Now
RegisterToolBegin(c, req) ==
    LET v == Validate(req)
        call == [pc |-> IF v.err # Nil THEN "done" ELSE "upsert",
                 row |-> ToolRow(v.req, now),
                 fresh |-> ActiveRowsOf(tools, req) = {},
                 during |-> Running,
                 res |-> Resp("RegisterTool", req, IF v.err # Nil THEN "validate" ELSE Nil)]
    IN  /\ calls[c].pc = "idle"
        /\ calls' = [d \in Callers |->
                IF d = c THEN call
                ELSE IF calls[d].pc = "idle" THEN calls[d]
                ELSE [calls[d] EXCEPT !.during = @ \ {c}]]
        /\ UNCHANGED <<store, now, closed, resp>>

\* RegisterTool: INSERT INTO providers ... ON CONFLICT(id) DO UPDATE
RegisterToolUpsert(c) ==
    /\ calls[c].pc = "upsert"
    /\ providers' = UpsertPlaceholder(providers, calls[c].row.provider_id, calls[c].row.created_at)
    /\ calls' = [calls EXCEPT ![c].pc = "insert"]
    /\ UNCHANGED <<tools, tools_fts, invocations, now, closed, resp>>

\* RegisterTool: INSERT INTO tools, and the translation of its error
RegisterToolInsert(c) ==
    LET row == calls[c].row
        e == InsertToolError(providers, tools, row)
    IN  /\ calls[c].pc = "insert"
        /\ IF e = Nil
           THEN /\ tools' = Append(tools, row)
                /\ tools_fts' = FtsAfterInsert(tools_fts, Len(tools) + 1, row)
                /\ calls' = [calls EXCEPT ![c].pc = "get"]
           ELSE /\ calls' = [calls EXCEPT ![c].pc = "done",
                                          ![c].res.err =
                                              IF e = "UNIQUE constraint failed"
                                              THEN "ErrDuplicate" ELSE "insert tool"]
                /\ UNCHANGED <<tools, tools_fts>>
        /\ UNCHANGED <<providers, invocations, now, closed, resp>>

\* RegisterTool: return r.GetTool(ctx, id)
RegisterToolGet(c) ==
    /\ calls[c].pc = "get"
    /\ calls' = [calls EXCEPT ![c].pc = "done",
                              ![c].res = [GetToolResult(tools, calls[c].row.id)
                                            EXCEPT !.op = "RegisterTool", !.arg = calls[c].res.arg]]
    /\ UNCHANGED <<store, now, closed, resp>>

\* The caller takes its result
Return(c) ==
    /\ calls[c].pc = "done"
    /\ calls' = [calls EXCEPT ![c] = Idle]
    /\ UNCHANGED <<store, now, closed, resp>>

\* A RegisterTool call of caller c that got past validation and has returned
Registered(c) ==
    /\ calls[c].pc = "done"
    /\ calls[c].res.err # "validate"

\* The calls of c and d that have returned ran at the same time
Overlapped(c, d) == d \in calls[c].during \/ c \in calls[d].during

NextRace ==
    \/ \E c \in Callers, req \in RaceRequests : RegisterToolBegin(c, req)
    \/ \E c \in Callers : RegisterToolUpsert(c)
    \/ \E c \in Callers : RegisterToolInsert(c)
    \/ \E c \in Callers : RegisterToolGet(c)
    \/ \E c \in Callers : Return(c)
    \/ \E id \in ToolIDs : DeactivateTool(id, P1)
    \/ Tick

SpecRace == Init /\ [][NextRace]_vars

(* ListTools runs two statements, the page query and the count, with no
   transaction around them; the writes of other callers run between the two.
   active records the number of active tools when the page was read. *)

ListingRequests == {ValidReq, [BareReq EXCEPT !.name = <<"b">>, !.version = <<"c">>]}

\* ListTools: the defaults and SELECT ... WHERE is_active = 1 ORDER BY created_at
\* DESC LIMIT ? OFFSET ?, scanned
ListToolsPage(c, page, limit) ==
    LET arg == [page |-> page, limit |-> limit]
    IN  /\ calls[c].pc = "idle"
        /\ IF DBError # Nil
           THEN calls' = [calls EXCEPT ![c] =
                            [pc |-> "done", active |-> 0,
                             res |-> Resp("ListTools", arg, DBError)]]
           ELSE \E pg \in PageOf(tools, ActiveRows(tools), EffLimit(limit),
                                 (EffPage(page) - 1) * EffLimit(limit)) :
                    calls' = [calls EXCEPT ![c] =
                                [pc |-> "count",
                                 active |-> Cardinality(ActiveRows(tools)),
                                 res |-> [Resp("ListTools", arg, Nil) EXCEPT
                                            !.tools = pg, !.page = EffPage(page),
                                            !.limit = EffLimit(limit)]]]
        /\ UNCHANGED <<store, now, closed, resp>>

\* ListTools: SELECT COUNT(*) FROM tools WHERE is_active = 1, and the result
ListToolsCount(c) ==
    /\ calls[c].pc = "count"
    /\ calls' = [calls EXCEPT ![c].pc = "done",
                              ![c].res = IF DBError # Nil
                                         THEN Resp("ListTools", calls[c].res.arg, DBError)
                                         ELSE [calls[c].res EXCEPT
                                                 !.total = Cardinality(ActiveRows(tools))]]
    /\ UNCHANGED <<store, now, closed, resp>>

\* The caller that lists; the other one writes.
Listers == {"c1"}

\* Listings beside the registrations and deactivations of another caller.
NextListing ==
    \/ \E c \in Listers, pl \in PagingArgs : ListToolsPage(c, pl[1], pl[2])
    \/ \E c \in Listers : ListToolsCount(c)
    \/ \E c \in Listers : Return(c)
    \/ \E req \in ListingRequests : RegisterTool(req, "none")
    \/ \E req \in ListingRequests :
          DeactivateTool(makeToolDID(req.name, req.version, req.provider_id), req.provider_id)
    \/ Tick

SpecListing == Init /\ [][NextListing]_vars

----------------------------------------------------------------------------
(* Properties *)

\* C1: a RegisterTool for a triple that has an active tool fails, with ErrDuplicate
\* (409 DUPLICATE_TOOL at the transport) whenever its store statements run, and adds
\* no row; the tools table never holds two rows for one triple.
C1_DuplicateRejected ==
    [][/\ \A i, j \in 1..Len(tools') : SameTriple(tools'[i], tools'[j]) => i = j
       /\ \A req \in Requests, fault \in Faults :
            (resp'.op = "RegisterTool" /\ resp'.arg = req
                /\ Validate(req).err = Nil /\ ActiveRowsOf(tools, req) # {}
                /\ RegisterTool(req, fault))
            => /\ resp'.err # Nil
               /\ tools' = tools
               /\ fault \in {"none", "get"} =>
                    /\ resp'.err = "ErrDuplicate"
                    /\ registerToolReply(resp') = [status |-> 409, code |-> "DUPLICATE_TOOL"]]_vars

C1_Witness ==
    /\ resp.op = "RegisterTool"
    /\ resp.err = "ErrDuplicate"
    /\ ActiveRowsOf(tools, resp.arg) # {}

\* C2: a RegisterTool for a triple whose only tool was deactivated by its owner
\* succeeds, and the tool it returns is active and fetchable by GetTool.
C2_SlotReusedAfterDeactivation ==
    [][\A req \in Requests :
          (resp'.op = "RegisterTool" /\ resp'.arg = req
              /\ Validate(req).err = Nil
              /\ ToolRowsOf(tools, req) # {} /\ ActiveRowsOf(tools, req) = {}
              /\ RegisterTool(req, "none"))
          => /\ resp'.err = Nil
             /\ resp'.tools[1].is_active
             /\ GetToolResult(tools', resp'.tools[1].id).err = Nil
             /\ GetToolResult(tools', resp'.tools[1].id).tools[1].is_active]_vars

\* C3: a RegisterTool that passes validation and then fails on the duplicate or on
\* the tool insert leaves the providers table as it was.
C3_FailedRegistrationLeavesProviders ==
    [][\A req \in Requests, fault \in Faults :
          (resp'.op = "RegisterTool" /\ resp'.arg = req
              /\ resp'.err \in {"ErrDuplicate", "insert tool"}
              /\ Validate(req).err = Nil
              /\ RegisterTool(req, fault))
          => providers' = providers]_vars

\* C4: when two RegisterTool calls that ran at the same time, for one triple that had
\* no active tool when either began, have both returned, one of them succeeded, the other failed with
\* ErrDuplicate, and the tools table holds one row for the triple.
C4_ConcurrentRegistration ==
    \A c, d \in Callers :
        (c # d /\ Registered(c) /\ Registered(d) /\ Overlapped(c, d)
            /\ SameTriple(calls[c].row, calls[d].row)
            /\ calls[c].fresh /\ calls[d].fresh)
        => /\ {calls[c].res.err, calls[d].res.err} = {Nil, "ErrDuplicate"}
           /\ Cardinality(ToolRowsOf(tools, calls[c].row)) = 1

\* C5: once an invocation is completed or failed, no operation changes its status.
C5_TerminalStatusKept ==
    [][\A i \in 1..Len(invocations) :
          invocations[i].status \in {"completed", "failed"}
          => invocations'[i].status = invocations[i].status]_vars

\* C6: DeactivateTool by a requester that does not own the tool, or for an ID with no
\* row, returns ErrNotFound and changes nothing: the tool keeps is_active and
\* updated_at and is still listed.
C6_DeactivateByNonOwner ==
    [][\A id \in ToolIDs, p \in ProviderIDs :
          (resp'.op = "DeactivateTool" /\ resp'.arg = [id |-> id, provider_id |-> p]
              /\ (~\E i \in 1..Len(tools) : tools[i].id = id /\ tools[i].provider_id = p)
              /\ DeactivateTool(id, p))
          => /\ resp'.err = "ErrNotFound"
             /\ store' = store
             /\ \A i \in 1..Len(tools) :
                   tools[i].id = id /\ tools[i].is_active = 1
                   => /\ tools'[i].is_active = 1
                      /\ tools'[i].updated_at = tools[i].updated_at
                      /\ \A r \in ListToolsResults(tools', 1, 0) :
                            \E k \in 1..Len(r.tools) : r.tools[k].id = id]_vars

C6_Witness ==
    /\ resp.op = "DeactivateTool"
    /\ resp.err = "ErrNotFound"
    /\ \E i \in 1..Len(tools) :
          /\ tools[i].id = resp.arg.id
          /\ tools[i].provider_id # resp.arg.provider_id
          /\ tools[i].is_active = 1

\* C7: GetTool returns the tool exactly when a row with the ID exists, a deactivated
\* tool with is_active = false, and ErrNotFound for every other ID.
C7_GetToolByID ==
    /\ \A id \in DiscoveryIDs :
          LET r == GetToolResult(tools, id)
              rows == {i \in 1..Len(tools) : tools[i].id = id}
          IN  /\ rows = {} => r.err = "ErrNotFound"
              /\ \A i \in rows :
                    /\ r.err = Nil
                    /\ r.tools[1].id = id
                    /\ r.tools[1].name = tools[i].name
                    /\ r.tools[1].is_active = (tools[i].is_active = 1)
    /\ resp.op = "GetTool" => resp = GetToolResult(tools, resp.arg)

C7_Witness ==
    /\ resp.op = "GetTool"
    /\ resp.err = Nil
    /\ ~resp.tools[1].is_active

\* C8: every ListTools result holds only active tools, at most the effective limit
\* of them, and total counts all active tools whatever the page; a tool that was
\* deactivated is in no page and is not counted.
C8_ListToolsActiveOnly ==
    /\ \A page \in PageArgs, limit \in LimitArgs :
          \A r \in ListToolsResults(tools, page, limit) :
              /\ \A k \in 1..Len(r.tools) : r.tools[k].is_active
              /\ Len(r.tools) <= (IF limit \in 1..100 THEN limit ELSE 20)
              /\ r.total = Cardinality({i \in 1..Len(tools) : tools[i].is_active = 1})
              /\ (resp.op = "DeactivateTool" /\ resp.err = Nil)
                    => \A k \in 1..Len(r.tools) : r.tools[k].id # resp.arg.id
    /\ resp.op = "ListTools" => resp \in ListToolsResults(tools, resp.arg.page, resp.arg.limit)
    /\ (resp.op = "DeactivateTool" /\ resp.err = Nil)
          => \A i \in 1..Len(tools) : tools[i].id = resp.arg.id => tools[i].is_active = 0

C8_Witness ==
    /\ resp.op = "ListTools"
    /\ Len(resp.tools) = 1
    /\ resp.total = 2
    /\ \E i \in 1..Len(tools) : tools[i].is_active = 0

\* The number of pages of n tools at limit l
NumPages(n, l) == (n + l - 1) \div l

\* C9: with no write in between, the pages 1..ceil(N/L) of ListTools are pairwise
\* disjoint, each but the last holds L tools, the last holds the rest, and together
\* they hold every active tool once, also when creation timestamps are equal.
C9_PagesPartition ==
    \A l \in {1, 2} :
        LET n == Cardinality(ActiveRows(tools))
            pages == 1..NumPages(n, l)
            ids(r) == {r.tools[k].id : k \in 1..Len(r.tools)}
        IN  \A f \in [pages -> UNION {ListToolsResults(tools, p, l) : p \in pages}] :
                (\A p \in pages : f[p] \in ListToolsResults(tools, p, l))
                => /\ \A p, q \in pages : p # q => ids(f[p]) \cap ids(f[q]) = {}
                   /\ \A p \in pages :
                         Len(f[p].tools) = (IF p < NumPages(n, l) THEN l ELSE n - (p - 1) * l)
                   /\ UNION {ids(f[p]) : p \in pages}
                        = {tools[i].id : i \in ActiveRows(tools)}

\* What a caller sees of a result
Seen(r) == [tools |-> r.tools, total |-> r.total, page |-> r.page, limit |-> r.limit]

\* C10: with an empty Query, SearchTools returns what ListTools returns: the same
\* tools in the same order and the same total, page and limit.
C10_EmptySearchIsList ==
    \A page \in PageArgs, limit \in LimitArgs :
        {Seen(r) : r \in SearchToolsResults(tools, tools_fts, SearchQuery(<< >>, page, limit))}
            = {Seen(r) : r \in ListToolsResults(tools, page, limit)}

\* text holds a word (a maximal run of letters and digits) that starts with term
HasWordWith(text, term) ==
    \E i \in 1..(Len(text) - Len(term) + 1) :
        /\ SubSeq(text, i, i + Len(term) - 1) = term
        /\ i = 1 \/ text[i - 1] \notin Alnum

\* The tool, as GetTool returns it, matches term in its name, description or tags
ToolMatches(tool, term) ==
    \/ HasWordWith(tool.name, term)
    \/ HasWordWith(tool.description, term)
    \/ \E k \in 1..Len(tool.tags) : HasWordWith(tool.tags[k], term)

WordTerms == {<<"a">>, <<"b">>, <<"a", "b">>}

\* C11: SearchTools with a one-word query returns no error and a page of the active
\* tools that hold a word starting with the term in name, description or tags: only
\* such tools, none twice, and as many as the limit and the offset leave of them, so
\* that an unpaged search finds every one of them.
C11_SearchByTerm ==
    \A term \in WordTerms :
        LET matching == {tools[i].id : i \in {j \in 1..Len(tools) :
                            /\ tools[j].is_active = 1
                            /\ ToolMatches(assembleTool(tools[j]), term)}}
        IN  \A pl \in {<<1, 0>>, <<1, 1>>, <<2, 1>>} :
                LET page == pl[1]
                    limit == pl[2]
                    lim == IF limit = 0 THEN 20 ELSE limit
                    left == Cardinality(matching) - (page - 1) * lim
                IN  \A r \in SearchToolsResults(tools, tools_fts, SearchQuery(term, page, limit)) :
                        /\ r.err = Nil
                        /\ \A k \in 1..Len(r.tools) : r.tools[k].id \in matching
                        /\ \A k, l \in 1..Len(r.tools) :
                              r.tools[k].id = r.tools[l].id => k = l
                        /\ Len(r.tools)
                              = (IF left < 0 THEN 0 ELSE IF left < lim THEN left ELSE lim)

C11_Witness ==
    /\ resp.op = "SearchTools"
    /\ resp.arg.query = <<"a">>
    /\ resp.err = Nil
    /\ Len(resp.tools) = 1
    /\ \E i \in 1..Len(tools) :
          tools[i].is_active = 1 /\ ~ToolMatches(assembleTool(tools[i]), <<"a">>)
    /\ \E i \in 1..Len(tools) :
          tools[i].is_active = 0 /\ ToolMatches(assembleTool(tools[i]), <<"a">>)

\* C12: a registered tool is stored, and returned, with timeout_ms 30000 when the
\* request's timeout_ms is zero or negative and with the request's timeout_ms when
\* it is positive, and with pricing model free when the request has no pricing;
\* every row of the tools table has timeout_ms > 0 and a pricing descriptor.
C12_DefaultsPersisted ==
    /\ \A i \in 1..Len(tools) :
          /\ tools[i].timeout_ms > 0
          /\ "model" \in DOMAIN tools[i].pricing
    /\ (resp.op = "RegisterTool" /\ resp.err = Nil) =>
          LET req == resp.arg
              tool == resp.tools[1]
              timeout == IF req.timeout_ms <= 0 THEN 30000 ELSE req.timeout_ms
          IN  /\ tool.timeout_ms = timeout
              /\ req.pricing = << >> => tool.pricing.model = "free"
              /\ req.pricing # << >> => tool.pricing = req.pricing[1]
              /\ \E i \in 1..Len(tools) :
                    /\ tools[i].id = tool.id
                    /\ tools[i].timeout_ms = timeout
                    /\ req.pricing = << >> => tools[i].pricing.model = "free"
                    /\ req.pricing # << >> => tools[i].pricing.model = req.pricing[1].model

C12_Witness ==
    /\ resp.op = "RegisterTool"
    /\ resp.err = Nil
    /\ resp.arg.timeout_ms <= 0
    /\ resp.arg.pricing = << >>
    /\ resp.tools[1].timeout_ms = 30000
    /\ resp.tools[1].pricing.model = "free"

\* A request the registry has to refuse: an empty name, version or endpoint, an
\* input schema that is absent or not well-formed JSON, or an output schema that is
\* given and not well-formed JSON.
Refused(req) ==
    \/ req.name = << >>
    \/ req.version = << >>
    \/ req.endpoint = ""
    \/ ~ValidJSON(req.schema.input)
    \/ req.schema.output # "" /\ ~ValidJSON(req.schema.output)

\* C13: RegisterTool fails when the name, version or endpoint is empty, when the
\* input schema is absent or not well-formed JSON, or when a non-empty output schema
\* is not well-formed JSON, and then no provider row and no tool row is created or
\* changed; no other request, one with an empty output schema included, fails
\* validation.
C13_InvalidRequestRefused ==
    [][resp'.op = "RegisterTool" =>
          LET req == resp'.arg
          IN  /\ Refused(req) =>
                    /\ resp'.err # Nil
                    /\ providers' = providers
                    /\ tools' = tools
                    /\ tools_fts' = tools_fts
              /\ ~Refused(req) => resp'.err # "validate"]_vars

C13_Witness ==
    /\ resp.op = "RegisterTool"
    /\ resp.arg.schema.output = "{bad"
    /\ resp.err # Nil
    /\ Len(tools) > 0
    /\ resp.arg.provider_id \notin DOMAIN providers

\* The errors of a registration that come from the store and not from validation.
StoreErrors == {"upsert provider", "insert tool", "store"}

\* C14: POST /v1/tools answers a validation failure with 400 INVALID_SCHEMA and never
\* with 500 INTERNAL_ERROR, and a store failure of a tool or provider registration
\* is never answered with status 400.
C14_ValidationAnswered400 ==
    /\ resp.op = "RegisterTool" /\ resp.err = "validate" =>
          registerToolReply(resp) = [status |-> 400, code |-> "INVALID_SCHEMA"]
    /\ resp.op = "RegisterTool" /\ resp.err \in StoreErrors =>
          registerToolReply(resp).status # 400
    /\ resp.op = "RegisterProvider" /\ resp.err \in StoreErrors =>
          registerProviderReply(resp).status # 400

\* C15: RegisterProvider fails without writing when the id, endpoint or pubkey is
\* empty; a RegisterProvider that succeeds leaves the row of that id with the name,
\* endpoint, pubkey and stake of the request (an empty stake stored as "0") and
\* last_seen at the time of the call, gives a new row reputation 0, and no call,
\* however often repeated, changes the id, created_at or reputation of a row or
\* touches the row of another id.
C15_ProviderUpsert ==
    [][resp'.op = "RegisterProvider" =>
          LET p == resp'.arg
              empty == p.id = << >> \/ p.endpoint = "" \/ p.pubkey = ""
          IN  /\ empty => resp'.err # Nil /\ providers' = providers
              /\ ~empty /\ resp'.err = Nil =>
                    /\ p.id \in DOMAIN providers'
                    /\ providers'[p.id].name = p.name
                    /\ providers'[p.id].endpoint = p.endpoint
                    /\ providers'[p.id].pubkey = p.pubkey
                    /\ providers'[p.id].stake_claw = (IF p.stake_claw = "" THEN "0" ELSE p.stake_claw)
                    /\ providers'[p.id].last_seen = now
                    /\ resp'.tools = <<providers'[p.id]>>
              /\ DOMAIN providers \subseteq DOMAIN providers'
              /\ DOMAIN providers' \subseteq DOMAIN providers \cup {p.id}
              /\ \A id \in DOMAIN providers' : providers'[id].id = id
              /\ \A id \in DOMAIN providers :
                    /\ providers'[id].created_at = providers[id].created_at
                    /\ providers'[id].reputation = providers[id].reputation
                    /\ id # p.id => providers'[id] = providers[id]
              /\ \A id \in DOMAIN providers' \ DOMAIN providers :
                    /\ providers'[id].created_at = now
                    /\ providers'[id].reputation = 0]_vars

C15_Witness ==
    /\ resp.op = "RegisterProvider"
    /\ resp.err = Nil
    /\ resp.arg.stake_claw = ""
    /\ providers[P1].stake_claw = "0"
    /\ providers[P1].name = resp.arg.name
    /\ providers[P1].created_at < providers[P1].last_seen
    /\ P2 \in DOMAIN providers

\* The provider row a tool registration creates for a provider it does not know.
Placeholder(id, t) ==
    [id |-> id, name |-> "", endpoint |-> "", pubkey |-> "", stake_claw |-> "0",
     reputation |-> 0, created_at |-> t, last_seen |-> t]

\* C16: a RegisterTool for a provider_id that has no row creates the placeholder row
\* (empty name, endpoint and pubkey, stake "0", reputation 0), and for a provider_id
\* that has a row changes only its last_seen; a later RegisterProvider for a
\* placeholder writes the request's fields into that same row and keeps its
\* created_at.
C16_PlaceholderProvider ==
    [][/\ resp'.op = "RegisterTool" =>
            LET id == resp'.arg.provider_id
            IN  /\ resp'.err = Nil =>
                      /\ id \in DOMAIN providers'
                      /\ providers'[id].last_seen = now
                      /\ id \notin DOMAIN providers => providers'[id] = Placeholder(id, now)
                /\ \A q \in DOMAIN providers' \ DOMAIN providers :
                      q = id /\ providers'[q] = Placeholder(id, now)
                /\ \A q \in DOMAIN providers :
                      /\ q \in DOMAIN providers'
                      /\ providers'[q] = [providers[q] EXCEPT !.last_seen = providers'[q].last_seen]
                      /\ q # id => providers'[q] = providers[q]
       /\ resp'.op = "RegisterProvider" /\ resp'.err = Nil =>
            LET p == resp'.arg
            IN  (p.id \in DOMAIN providers
                    /\ [providers[p.id] EXCEPT !.last_seen = providers[p.id].created_at]
                          = Placeholder(p.id, providers[p.id].created_at)) =>
                    /\ DOMAIN providers' = DOMAIN providers
                    /\ providers'[p.id].created_at = providers[p.id].created_at
                    /\ providers'[p.id].name = p.name
                    /\ providers'[p.id].endpoint = p.endpoint
                    /\ providers'[p.id].pubkey = p.pubkey
                    /\ providers'[p.id].last_seen = now]_vars

C16_Witness ==
    /\ resp.op = "RegisterProvider"
    /\ resp.err = Nil
    /\ providers[P1].endpoint # ""
    /\ providers[P1].created_at < providers[P1].last_seen
    /\ \E i \in 1..Len(tools) :
          tools[i].provider_id = P1 /\ tools[i].created_at = providers[P1].created_at
    /\ P2 \in DOMAIN providers
    /\ providers[P2] = Placeholder(P2, providers[P2].created_at)

\* C17: CompleteInvocation and FailInvocation with an invocation ID that has no row
\* return no error and leave every invocation row unchanged.
C17_UnknownInvocationIgnored ==
    [][(/\ resp'.op \in {"CompleteInvocation", "FailInvocation"}
        /\ \A i \in 1..Len(invocations) : invocations[i].id # resp'.arg.id)
       => /\ resp'.err = Nil
          /\ invocations' = invocations]_vars

C17_Witness ==
    /\ resp.op \in {"CompleteInvocation", "FailInvocation"}
    /\ resp.err = Nil
    /\ Len(invocations) > 0
    /\ \A i \in 1..Len(invocations) :
          invocations[i].id # resp.arg.id /\ invocations[i].status = "pending"

\* C18: every invocation row is created by RecordInvocation with status pending; a
\* row that is completed or failed is never pending again, whatever is called; the
\* status of a row is always one of pending, completed, failed, timeout.
C18_StatusLifecycle ==
    [][/\ Len(invocations') >= Len(invocations)
       /\ \A i \in 1..Len(invocations') :
             /\ invocations'[i].status \in {"pending", "completed", "failed", "timeout"}
             /\ i > Len(invocations) =>
                   /\ resp'.op = "RecordInvocation"
                   /\ invocations'[i].status = "pending"
             /\ i <= Len(invocations) =>
                   /\ invocations'[i].id = invocations[i].id
                   /\ invocations[i].status \in {"completed", "failed"}
                         => invocations'[i].status # "pending"]_vars

C18_Witness ==
    /\ resp.op = "FailInvocation"
    /\ \E i \in 1..Len(invocations) :
          /\ invocations[i].id = resp.arg.id
          /\ invocations[i].status = "failed"
          /\ invocations[i].output_hash # NULL

\* The request and one of the same (name, version, provider_id) whose other fields
\* all differ.
SameTripleRequests(req) ==
    {req, [req EXCEPT !.description = <<"c">>, !.schema = [input |-> "null", output |-> ""],
                      !.pricing = << >>, !.endpoint = "grpc://f", !.timeout_ms = 1,
                      !.tags = << <<"b">> >>]}

\* C19: the ID of a tool is a function of (name, version, provider_id) alone: the ID
\* a registration returns and stores is the one the same triple gets in an empty
\* store at time 0, whatever the other fields of the request; the ID, name, version
\* and provider_id of a stored tool never change.
C19_ToolIDFromTriple ==
    [][/\ Len(tools') >= Len(tools)
       /\ \A i \in 1..Len(tools) :
             /\ tools'[i].id = tools[i].id
             /\ SameTriple(tools'[i], tools[i])
       /\ resp'.op = "RegisterTool" /\ resp'.err = Nil =>
             LET req == resp'.arg
                 id == resp'.tools[1].id
             IN  /\ id = makeToolDID(req.name, req.version, req.provider_id)
                 /\ tools'[Len(tools')].id = id
                 /\ SameTriple(tools'[Len(tools')], req)
                 /\ \A r \in SameTripleRequests(req) :
                       LET o == RegisterToolRun(<< >>, << >>, << >>, 0, r, "none")
                       IN  o.resp.err = Nil /\ o.resp.tools[1].id = id]_vars

C19_Witness ==
    /\ resp.op = "RegisterTool"
    /\ resp.err = Nil
    /\ now > 0
    /\ Len(tools) > 1
    /\ tools[Len(tools)].id = resp.tools[1].id
    /\ \E i \in 1..(Len(tools) - 1) : tools[i].is_active = 0

\* C20: whenever RegisterTool returns ErrDuplicate, the store holds an active tool
\* with exactly the (name, version, provider_id) of the request.
C20_DuplicateMeansActiveTriple ==
    resp.op = "RegisterTool" /\ resp.err = "ErrDuplicate" =>
        \E i \in 1..Len(tools) :
            /\ tools[i].is_active = 1
            /\ tools[i].name = resp.arg.name
            /\ tools[i].version = resp.arg.version
            /\ tools[i].provider_id = resp.arg.provider_id

\* The operations of the registry.
RegistryOps ==
    {"RegisterTool", "GetTool", "ListTools", "SearchTools", "DeactivateTool",
     "RegisterProvider", "GetProvider", "ListProviders", "RecordInvocation",
     "CompleteInvocation", "FailInvocation"}

\* C21: once the store is closed every registry operation returns an error and
\* writes nothing; the error of GetTool and GetProvider is then not ErrNotFound, and
\* the transport answers it 500 and not 404.
C21_ClosedStoreFails ==
    [][(closed /\ resp'.op \in RegistryOps) =>
          /\ resp'.err # Nil
          /\ store' = store
          /\ resp'.op = "GetTool" =>
                resp'.err # "ErrNotFound" /\ getToolReply(resp').status = 500
          /\ resp'.op = "GetProvider" =>
                resp'.err # "ErrNotFound" /\ getProviderReply(resp').status = 500]_vars

C21_Witness ==
    /\ closed
    /\ resp.op = "GetTool"
    /\ resp.err # Nil
    /\ \E i \in 1..Len(tools) : tools[i].id = resp.arg
    /\ invocations # << >>

\* C22: opening the location of a store that was opened and migrated before
\* succeeds, and leaves every provider, tool, invocation and full-text-index row
\* as it was.
C22_ReopenKeepsRows ==
    [][resp'.op = "Open" => resp'.err = Nil /\ store' = store /\ ~closed']_vars

C22_Witness ==
    /\ resp.op = "Open"
    /\ resp.err = Nil
    /\ tools # << >>
    /\ invocations # << >>
    /\ DOMAIN providers # {}
    /\ DOMAIN tools_fts # {}

C24_PageAndLimitDefaults ==
    (resp.op \in {"ListTools", "SearchTools"} /\ resp.err = Nil) =>
        /\ resp.page = (IF resp.arg.page <= 0 THEN 1 ELSE resp.arg.page)
        /\ resp.limit = (IF resp.arg.limit <= 0 \/ resp.arg.limit > 100 THEN 20
                         ELSE resp.arg.limit)
        /\ resp.page >= 1
        /\ resp.limit \in 1..100
        /\ Len(resp.tools) <= resp.limit

C24_Witness ==
    /\ resp.op = "SearchTools"
    /\ resp.err = Nil
    /\ resp.arg.page < 0
    /\ resp.arg.limit > 100
    /\ resp.page = 1
    /\ resp.limit = 20
    /\ Len(resp.tools) = 3

\* C25: in every state an invocation has an output hash, a receipt signature and a
\* cost only if its status is completed, and an error message only if its status
\* is failed.
C25_ResultFieldsMatchStatus ==
    \A i \in 1..Len(invocations) :
        /\ (\/ invocations[i].output_hash # NULL
            \/ invocations[i].receipt_sig # NULL
            \/ invocations[i].cost_claw # NULL) => invocations[i].status = "completed"
        /\ invocations[i].error # NULL => invocations[i].status = "failed"

\* C26: the provider_id of every tool row is the id of a provider row and the
\* tool_id of every invocation row is the id of a tool row, after every step; a
\* RecordInvocation with a tool ID that no tool row has fails and adds no
\* invocation row.
C26_ReferencesResolve ==
    [][/\ \A i \in 1..Len(tools') : tools'[i].provider_id \in DOMAIN providers'
       /\ \A i \in 1..Len(invocations') :
             \E j \in 1..Len(tools') : tools'[j].id = invocations'[i].tool_id
       /\ (/\ resp'.op = "RecordInvocation"
           /\ \A j \in 1..Len(tools) : tools[j].id # resp'.arg.tool_id) =>
             /\ resp'.err # Nil
             /\ invocations' = invocations]_vars

C26_Witness ==
    /\ resp.op = "RecordInvocation"
    /\ resp.arg.input = "{k:v}"
    /\ resp.err = "record invocation"
    /\ tools # << >>
    /\ \A j \in 1..Len(tools) : tools[j].id # resp.arg.tool_id

\* C27: after any registrations and deactivations the full-text index has an entry
\* for every tool row and for nothing else, and the entry of a row holds the row's
\* current name, description and tags.
C27_IndexMirrorsTools ==
    /\ DOMAIN tools_fts = 1..Len(tools)
    /\ \A i \in 1..Len(tools) :
          /\ tools_fts[i].name = tools[i].name
          /\ tools_fts[i].description = tools[i].description
          /\ tools_fts[i].tags = tools[i].tags

C27_Witness ==
    /\ resp.op = "DeactivateTool"
    /\ resp.err = Nil
    /\ Len(tools) > 1
    /\ DOMAIN tools_fts = 1..Len(tools)
    /\ \E i \in 1..Len(tools) : tools[i].is_active = 0 /\ tools[i].updated_at > tools[i].created_at

\* C28: a DeactivateTool that succeeds sets is_active to 0 and updated_at on the one
\* tool row of the given id and changes nothing else: no tool, provider or invocation
\* row is removed or changed; and no step of any operation changes the id, name,
\* version, schema, provider_id or created_at of a tool row.
C28_DeactivateFrame ==
    [][/\ Len(tools') >= Len(tools)
       /\ \A i \in 1..Len(tools) :
             /\ tools'[i].id = tools[i].id
             /\ tools'[i].name = tools[i].name
             /\ tools'[i].version = tools[i].version
             /\ tools'[i].schema_json = tools[i].schema_json
             /\ tools'[i].provider_id = tools[i].provider_id
             /\ tools'[i].created_at = tools[i].created_at
       /\ (resp'.op = "DeactivateTool" /\ resp'.err = Nil) =>
             /\ providers' = providers
             /\ invocations' = invocations
             /\ Len(tools') = Len(tools)
             /\ \E i \in 1..Len(tools) :
                   /\ tools[i].id = resp'.arg.id
                   /\ tools'[i] = [tools[i] EXCEPT !.is_active = 0, !.updated_at = now]
                   /\ \A j \in 1..Len(tools) : j # i => tools'[j] = tools[j]]_vars

C28_Witness ==
    /\ resp.op = "DeactivateTool"
    /\ resp.err = Nil
    /\ Len(tools) > 1
    /\ invocations # << >>
    /\ \E i \in 1..Len(tools) :
          /\ tools[i].id = resp.arg.id
          /\ tools[i].is_active = 0
          /\ invocations[1].tool_id = tools[i].id
    /\ \E j \in 1..Len(tools) : tools[j].is_active = 1

\* C29: for a non-empty query SearchTools reports as total the number of tools in
\* the page it returns, which is at most the limit it used, and not the number of
\* all the active tools that match.
C29_SearchTotalIsPageLength ==
    (resp.op = "SearchTools" /\ resp.arg.query # << >> /\ resp.err = Nil) =>
        /\ resp.total = Len(resp.tools)
        /\ resp.total <= resp.limit

C29_Witness ==
    /\ resp.op = "SearchTools"
    /\ resp.arg.query = <<"a">>
    /\ resp.err = Nil
    /\ resp.limit = 1
    /\ resp.total = 1
    /\ Cardinality({i \in 1..Len(tools) :
                      tools[i].is_active = 1 /\ ToolMatches(assembleTool(tools[i]), <<"a">>)}) = 2

\* The whitespace-separated terms of a query
TermsOf(query) == SelectSeq(Split(query, " "), LAMBDA w : w # << >>)

\* C30: for a query of several terms SearchTools takes every term as a prefix: the
\* first page, when it has room for them all, holds every active tool in whose
\* name, description or tags each term of the query starts some word.
C30_EveryTermIsPrefix ==
    (/\ resp.op = "SearchTools"
     /\ resp.err = Nil
     /\ Len(TermsOf(resp.arg.query)) > 1
     /\ resp.page = 1) =>
        LET terms == TermsOf(resp.arg.query)
            matching == {i \in 1..Len(tools) :
                            /\ tools[i].is_active = 1
                            /\ \A k \in 1..Len(terms) :
                                  ToolMatches(assembleTool(tools[i]), terms[k])}
        IN  Cardinality(matching) <= resp.limit =>
                \A i \in matching : \E k \in 1..Len(resp.tools) : resp.tools[k].id = tools[i].id

\* The value of a decimal amount of CLAW; a free tool has no amount.
AmountValue(amount) == IF amount = "5.0" THEN 5 ELSE 0

\* C31: every tool a search returns passes each filter of the query: it carries the
\* tag when a tag is set, it is owned by the provider when a provider is set, and
\* its price is at most max_price_claw when that is set.
C31_FiltersApplied ==
    (resp.op = "SearchTools" /\ resp.err = Nil) =>
        \A k \in 1..Len(resp.tools) :
            /\ resp.arg.tag # << >> =>
                  \E j \in 1..Len(resp.tools[k].tags) : resp.tools[k].tags[j] = resp.arg.tag
            /\ resp.arg.provider # << >> => resp.tools[k].provider_id = resp.arg.provider
            /\ resp.arg.max_price > 0 =>
                  AmountValue(resp.tools[k].pricing.amount_claw) <= resp.arg.max_price

\* C32: the tool a successful RegisterTool returns is the row the call inserted,
\* active, with updated_at = created_at and the request's values after the
\* defaults, whatever other callers do between its insert and its re-read.
C32_ReturnsInsertedRow ==
    \A c \in Callers :
        (calls[c].pc = "done" /\ calls[c].res.err = Nil) =>
            /\ calls[c].res.tools = <<assembleTool(calls[c].row)>>
            /\ calls[c].res.tools[1].is_active
            /\ calls[c].res.tools[1].updated_at = calls[c].res.tools[1].created_at

\* C33: tags round-trip through the store: the tool RegisterTool returns, and the
\* tool a later GetTool returns, carry the tags of the request, the same number of
\* tags with the same text.
C33_TagsRoundTrip ==
    /\ (resp.op = "RegisterTool" /\ resp.err = Nil) =>
           resp.tools[1].tags = resp.arg.tags
    /\ (resp.op = "GetTool" /\ resp.err = Nil) =>
           \A req \in TagRequests :
               makeToolDID(req.name, req.version, req.provider_id) = resp.arg =>
                   resp.tools[1].tags = req.tags

\* C34: in every reachable state the pricing model of every stored tool is one of
\* free, per_call, per_token and subscription.
C34_PricingModelInEnum ==
    \A i \in 1..Len(tools) : UnmarshalPricing(tools[i].pricing).model \in PricingModels

C36_TriplesIndependent ==
    (resp.op = "RegisterTool" /\ resp.err \in {Nil, "ErrDuplicate"}) =>
        /\ \A i \in 1..Len(tools) :
               tools[i].id = makeToolDID(resp.arg.name, resp.arg.version, resp.arg.provider_id)
                   => SameTriple(tools[i], resp.arg)
        /\ resp.err = "ErrDuplicate" => ToolRowsOf(tools, resp.arg) # {}

\* C37: under concurrent registrations and deactivations a ListTools result is
\* that of one snapshot: it returns no more tools than its total, and its total is
\* the number of active tools at the moment the page was read.
C37_ListSnapshot ==
    \A c \in Callers :
        (calls[c].pc = "done" /\ calls[c].res.op = "ListTools" /\ calls[c].res.err = Nil) =>
            /\ Len(calls[c].res.tools) <= calls[c].res.total
            /\ calls[c].res.total = calls[c].active

\* C38: DeactivateTool is idempotent for the owner: a DeactivateTool by the owner
\* on a tool that is already deactivated returns success, not ErrNotFound, and
\* leaves the tool inactive.
C38_DeactivateIdempotent ==
    [][\A id \in ToolIDs, p \in ProviderIDs :
          (/\ resp'.op = "DeactivateTool"
           /\ resp'.arg = [id |-> id, provider_id |-> p]
           /\ \E i \in 1..Len(tools) :
                 tools[i].id = id /\ tools[i].provider_id = p /\ tools[i].is_active = 0
           /\ DeactivateTool(id, p))
          => /\ resp'.err = Nil
             /\ \A i \in 1..Len(tools') : tools'[i].id = id => tools'[i].is_active = 0]_vars

\* The owner's DeactivateTool succeeded on a tool that was inactive already: the
\* call found its row and left the store as it was.
C38_Witness ==
    /\ resp.op = "DeactivateTool"
    /\ resp.err = Nil
    /\ ~resp.wrote
    /\ \E i \in 1..Len(tools) :
          /\ tools[i].id = resp.arg.id
          /\ tools[i].provider_id = resp.arg.provider_id
          /\ tools[i].is_active = 0

\* The tools table with every tool active.
Activated(ts) == [i \in 1..Len(ts) |-> [ts[i] EXCEPT !.is_active = 1]]

\* C39: the invocation tracker does not depend on the active flag of a tool:
\* RecordInvocation returns and records for a deactivated tool what it does with
\* every tool active, CompleteInvocation and FailInvocation finish the invocations
\* of a deactivated tool as those of an active one, and DeactivateTool leaves the
\* invocations as they are.
C39_ActiveFlagIgnored ==
    [][/\ resp'.op = "RecordInvocation" =>
            LET h == hashInput(resp'.arg.input)
                expect == IF h.err # Nil THEN "hash input"
                          ELSE IF ~ToolReference(Activated(tools), resp'.arg.tool_id)
                          THEN "record invocation"
                          ELSE Nil
                n == Len(invocations')
            IN  /\ resp'.err = expect
                /\ IF expect = Nil
                   THEN /\ n = Len(invocations) + 1
                        /\ SubSeq(invocations', 1, n - 1) = invocations
                        /\ invocations'[n].tool_id = resp'.arg.tool_id
                        /\ invocations'[n].status = "pending"
                        /\ invocations'[n].input_hash = h.hash
                        /\ invocations'[n].started_at = now
                   ELSE invocations' = invocations
       /\ resp'.op \in {"CompleteInvocation", "FailInvocation"} =>
            /\ resp'.err = Nil
            /\ Len(invocations') = Len(invocations)
            /\ \A i \in 1..Len(invocations) :
                  IF invocations[i].id = resp'.arg.id
                  THEN /\ invocations'[i].status =
                            (IF resp'.op = "CompleteInvocation" THEN "completed" ELSE "failed")
                       /\ invocations'[i].completed_at = <<now>>
                  ELSE invocations'[i] = invocations[i]
       /\ resp'.op = "DeactivateTool" => invocations' = invocations]_vars

\* An invocation of a deactivated tool was recorded, or was completed or failed.
C39_Witness ==
    /\ resp.op \in {"RecordInvocation", "CompleteInvocation", "FailInvocation"}
    /\ resp.err = Nil
    /\ resp.wrote
    /\ \E k \in 1..Len(invocations), i \in 1..Len(tools) :
          /\ tools[i].id = invocations[k].tool_id
          /\ tools[i].is_active = 0
          /\ \/ resp.op = "RecordInvocation" /\ k = Len(invocations)
             \/ resp.op # "RecordInvocation" /\ invocations[k].id = resp.arg.id

====
